---- MODULE Spec2Model ----
(***************************************************************************)
(* House Money: the import pipeline (file_import.py) and the persistence   *)
(* layer with its read-side cache (database.py), as a state machine.       *)
(*                                                                         *)
(* The SQLite database is the four tables of init_db; the cache is the two *)
(* module-level dictionaries _cache and _cache_timestamps; every callback  *)
(* runs on a thread of its own, so each operation is a sequence of steps   *)
(* of one thread: a step is one database statement group up to its commit, *)
(* or one critical section under _cache_lock.                              *)
(***************************************************************************)
EXTENDS Integers, Sequences, FiniteSets, TLC

VARIABLES
    tags,               \* table tags: set of [id, name]
    uploaded_files,     \* table uploaded_files: sequence of rows, in insertion order
    transactions,       \* table transactions: set of rows
    transaction_tags,   \* table transaction_tags: set of <<transaction_id, tag_id>>
    nextTxId,           \* AUTOINCREMENT counter of transactions
    nextTagId,          \* AUTOINCREMENT counter of tags
    schema,             \* the tables that exist in the database file
    connection,         \* per thread: thread_local.connection ("none": no attribute)
    cache,              \* _cache
    cache_timestamps,   \* _cache_timestamps
    now,                \* time.time()
    pc,                 \* per thread: the step it is at
    loc,                \* per thread: the locals of the running operation
    ret,                \* per thread: what its last finished operation returned
    prevOp              \* per thread: the kind of operation it finished before that one

dbVars    == <<tags, uploaded_files, transactions, transaction_tags, nextTxId, nextTagId,
               schema>>
cacheVars == <<cache, cache_timestamps>>
vars      == <<tags, uploaded_files, transactions, transaction_tags, nextTxId, nextTagId,
               schema, connection, cache, cache_timestamps, now, pc, loc, ret, prevOp>>

-----------------------------------------------------------------------------
(* Bounds of the model *)

MaxBatch == 2   \* files in one process_uploaded_files call
MaxFiles == 2   \* rows of uploaded_files
MaxTx    == 2   \* transactions ever created
MaxTicks == 2   \* clock ticks
MaxNewTags == 1 \* tags added to the default ones
TickLen  == 150 \* seconds per tick

(* Program constants *)

CACHE_TTL == 300

\* get_db_connection(timeout=30): the seconds SQLite waits for a lock
BusyTimeout == 30

None == "None"

Threads == DOMAIN pc

-----------------------------------------------------------------------------
(* The schema and its default rows *)

DefaultTagNames ==
    <<"Groceries", "Dining", "Transportation", "Shopping", "Entertainment", "Utilities",
      "Housing", "Healthcare", "Education", "Travel", "Gifts", "Personal Care",
      "Investments", "Income", "Subscriptions", "Insurance">>

DefaultTags == {[id |-> i, name |-> DefaultTagNames[i]] : i \in 1..Len(DefaultTagNames)}

ManualEntry == "manual_entry"

Tables == {"tags", "uploaded_files", "transactions", "transaction_tags"}

-----------------------------------------------------------------------------
(* The cache: keys, and the four functions that touch the two dictionaries *)

BaseKey(name) == [ns |-> name, col |-> "", asc |-> FALSE, text |-> "", on |-> ""]

SortKey(sort_column, ascending, search_text, search_text_on) ==
    [ns |-> "transactions_sort_", col |-> sort_column, asc |-> ascending,
     text |-> search_text, on |-> search_text_on]

Drop(f, keys) == [k \in (DOMAIN f) \ keys |-> f[k]]

Put(f, k, v) == [x \in (DOMAIN f) \cup {k} |-> IF x = k THEN v ELSE f[x]]

SortedKeys(ts) == {k \in DOMAIN ts : k.ns = "transactions_sort_"}

\* Mutant: the derived keys are not removed with the base key.
InvalidatedKeysBaseOnly(cache_name, ts) == {BaseKey(cache_name)}

InvalidatedKeys(cache_name, ts) ==
    {BaseKey(cache_name)} \cup (IF cache_name = "transactions" THEN SortedKeys(ts) ELSE {})

\* Mutant: the timestamps are popped, the values are left in _cache.
_invalidate_cache_timestamps_only(cache_name) ==
    /\ cache_timestamps' = Drop(cache_timestamps, InvalidatedKeys(cache_name, cache_timestamps))
    /\ cache' = cache

_invalidate_cache(cache_name) ==
    /\ cache_timestamps' = Drop(cache_timestamps, InvalidatedKeys(cache_name, cache_timestamps))
    /\ cache' = Drop(cache, InvalidatedKeys(cache_name, cache_timestamps))

_is_cache_valid(key) ==
    /\ key \in DOMAIN cache_timestamps
    /\ (now - cache_timestamps[key]) < CACHE_TTL

\* Mutant: the value is stored without its timestamp.
_update_cache_unstamped(key, data) ==
    /\ cache' = Put(cache, key, data)
    /\ cache_timestamps' = cache_timestamps

_update_cache(key, data) ==
    /\ cache' = Put(cache, key, data)
    /\ cache_timestamps' = Put(cache_timestamps, key, now)

\* _cache.get(cache_name, None), and the caller's "if cached_data is not None else
\* pl.DataFrame()": hit tells the entry from the empty fallback.
_get_cache(key) ==
    [hit |-> key \in DOMAIN cache, data |-> IF key \in DOMAIN cache THEN cache[key] ELSE {}]

-----------------------------------------------------------------------------
(* Uploaded payloads.  A payload is "<mime>;base64,<data>"; the decoded     *)
(* data is a CSV text, described by what pl.read_csv makes of it: its       *)
(* columns, whether its date cells parse, and per row the Amount cell and   *)
(* the comma-separated tokens of the Tags cell.                            *)

Mimes == {"data:text/csv;base64", "data:application/vnd.ms-excel;base64"}

Tok(pad, name) == [pad |-> pad, name |-> name]

StdCols == {"Date", "Description", "Amount"}

CSV ==
    [d1 |-> [cols |-> StdCols, dateOk |-> TRUE,
             rows |-> << [Date |-> 20240102, Description |-> "Bakery", Amount |-> "4.50", Tags |-> <<>>],
                         [Date |-> 20240215, Description |-> "Salary", Amount |-> "1500", Tags |-> <<>>] >>],
     d2 |-> [cols |-> StdCols \cup {"Tags"}, dateOk |-> TRUE,
             rows |-> << [Date |-> 20240301, Description |-> "Market", Amount |-> "12.00",
                          Tags |-> <<Tok(FALSE, "Groceries"), Tok(TRUE, "Vacation"),
                                     Tok(TRUE, "Groceries"), Tok(FALSE, "dining")>>] >>],
     d3 |-> [cols |-> {"Date", "Description"}, dateOk |-> TRUE,
             rows |-> << [Date |-> 20240110, Description |-> "Taxi", Amount |-> "", Tags |-> <<>>] >>],
     d4 |-> [cols |-> StdCols, dateOk |-> TRUE,
             rows |-> << [Date |-> 20240111, Description |-> "Books", Amount |-> "", Tags |-> <<>>] >>],
     d5 |-> [cols |-> StdCols, dateOk |-> FALSE,
             rows |-> << [Date |-> 20240120, Description |-> "Cinema", Amount |-> "7", Tags |-> <<>>] >>],
     d6 |-> [cols |-> StdCols, dateOk |-> TRUE,
             rows |-> << [Date |-> 20240105, Description |-> "Kiosk", Amount |-> "3.20", Tags |-> <<>>],
                         [Date |-> 20240318, Description |-> "Refund", Amount |-> "abc", Tags |-> <<>>] >>]]

Data == DOMAIN CSV

\* Date.dt.strftime('%Y-%m-%d %H:%M:%S') of the dates of the rows
Strftime(date) ==
    CASE date = 20240102 -> "2024-01-02 00:00:00"
      [] date = 20240215 -> "2024-02-15 00:00:00"
      [] date = 20240301 -> "2024-03-01 00:00:00"
      [] date = 20240110 -> "2024-01-10 00:00:00"
      [] date = 20240111 -> "2024-01-11 00:00:00"
      [] date = 20240120 -> "2024-01-20 00:00:00"
      [] date = 20240105 -> "2024-01-05 00:00:00"
      [] date = 20240318 -> "2024-03-18 00:00:00"

NumericCells == {"4.50", "1500", "12.00", "7", "3.20"}

SHA256 ==
    [d1 |-> "9f2c", d2 |-> "41ab", d3 |-> "c07e", d4 |-> "5d10", d5 |-> "e8b3", d6 |-> "27fa"]

calculate_file_hash(contents) == SHA256[contents.data]

-----------------------------------------------------------------------------
(* parse_contents *)

StandardMapping == [date |-> "Date", description |-> "Description", amount |-> "Amount"]

BankMapping ==
    [date |-> "Transaction Date", description |-> "Details", amount |-> "Transaction Amount"]

\* custom_columns is None (isNone) unless format_type is 'custom'.
NoCustomColumns == [isNone |-> TRUE, date |-> None, description |-> None, amount |-> None]

CustomColumns(date_col, desc_col, amount_col) ==
    [isNone |-> FALSE, date |-> date_col, description |-> desc_col, amount |-> amount_col]

\* 'custom': custom_columns or {standard}: a dict of three keys is truthy whatever
\* its values are, so only custom_columns = None falls back.
format_mappings(format_type, custom_columns) ==
    CASE format_type = "standard" -> StandardMapping
      [] format_type = "bank"     -> BankMapping
      [] format_type = "custom"   ->
            IF custom_columns.isNone THEN StandardMapping
            ELSE [date |-> custom_columns.date, description |-> custom_columns.description,
                  amount |-> custom_columns.amount]

MappingValues(mapping) == <<mapping.date, mapping.description, mapping.amount>>

MissingCols(mapping, cols) ==
    SelectSeq(MappingValues(mapping), LAMBDA c : c \notin cols)

\* pl.col('Amount').cast(pl.Decimal) is a strict cast: a cell that is no number
\* raises; an empty cell is null.
AmountCastRaises(rows) == \E i \in 1..Len(rows) : rows[i].Amount \notin NumericCells \cup {""}

DropNullAmounts(rows) == SelectSeq(rows, LAMBDA r : r.Amount # "")

\* The pair (df, error) parse_contents returns: ok stands for "df is not None".
ParseOk(rows)      == [ok |-> TRUE,  df |-> rows, error |-> None, missing |-> <<>>]
ParseErr(kind, ms) == [ok |-> FALSE, df |-> <<>>, error |-> kind, missing |-> ms]

parse_contents(contents, format_type, custom_columns) ==
    LET csv     == CSV[contents.data]
        mapping == format_mappings(format_type, custom_columns)
        missing == MissingCols(mapping, csv.cols)
    IN  IF missing # <<>>
        THEN IF \E i \in 1..Len(missing) : missing[i] = None
             THEN ParseErr("exception", <<>>)       \* ', '.join raises on None
             ELSE ParseErr("missing columns", missing)
        ELSE IF ~csv.dateOk
        THEN ParseErr("exception", <<>>)            \* cast(pl.Datetime) raises
        ELSE IF AmountCastRaises(csv.rows)
        THEN ParseErr("exception", <<>>)            \* cast(pl.Decimal) raises
        ELSE ParseOk(DropNullAmounts(csv.rows))

-----------------------------------------------------------------------------
(* Threads: calling and returning *)

IdleLoc == [op |-> "none"]

NoRet == [op |-> "none", ok |-> FALSE, raised |-> FALSE]

TxWrites == {"save_transactions", "update_transaction_tags", "update_transaction_note",
             "create_manual_transaction", "delete_transactions"}

\* The kind of a finished operation: a write to transactions that returned
\* successfully, or anything else.
Kind(r) == IF r.op \in TxWrites /\ r.ok THEN "write" ELSE "other"

\* The steps a thread waits at between get_db_connection() and the
\* close_thread_connection() of the operation's "finally".
Holding(label) ==
    label \in {"puf_gate_inval", "st_inval", "rd_update", "wr_inval", "tag_inval",
               "tag_busy"}

\* The steps at which the thread's connection is inside a write transaction that
\* it has not committed: it holds the database's write lock.
Writing(label) == label = "tag_commit"

LockHeld(t) == \E u \in Threads \ {t} : connection[u] = "writing"

\* get_db_connection() hands out thread_local.connection as it is when the attribute
\* exists; an operation that gets a closed connection, or that names a table that
\* does not exist, raises at its first statement.
DbFails(t, needed) == connection[t] = "closed" \/ ~(needed \subseteq schema)

\* The returns that never called get_db_connection(): a read served from the cache,
\* and process_uploaded_files on no file.  Every other return has run the
\* operation's "finally: close_thread_connection()".
NoConnectionUsed(r) ==
    \/ r.op \in {"get_tags", "get_uploaded_files", "load_transactions",
                 "get_tag_name_to_id_mapping", "load_transactions_with_sort"}
          /\ r.src \in {"cache", "fallback"}
    \/ r.op = "process_uploaded_files" /\ r.batch = <<>>

\* The returns whose "finally" is conn.close(): the connection is closed and the
\* attribute thread_local.connection is kept.
ClosedNotReleased(r) == r.op \in {"init_db", "reset_database"}

\* A step inside an operation.  The result of the thread's previous operation is
\* dropped when the next one starts; its kind is kept in prevOp.
Goto(t, label, l) ==
    /\ pc' = [pc EXCEPT ![t] = label]
    /\ loc' = [loc EXCEPT ![t] = l]
    /\ connection' = [connection EXCEPT ![t] =
                         IF Writing(label) THEN "writing"
                         ELSE IF Holding(label) THEN "open"
                         ELSE IF label = "reset_init" THEN "closed"   \* conn.close()
                         ELSE IF Holding(pc[t]) \/ Writing(pc[t]) THEN "none" ELSE @]
    /\ IF pc[t] = "idle"
       THEN /\ prevOp' = [prevOp EXCEPT ![t] = Kind(ret[t])]
            /\ ret' = [ret EXCEPT ![t] = NoRet]
       ELSE UNCHANGED <<ret, prevOp>>

Return(t, r) ==
    /\ pc' = [pc EXCEPT ![t] = "idle"]
    /\ loc' = [loc EXCEPT ![t] = IdleLoc]
    /\ prevOp' = IF pc[t] = "idle" THEN [prevOp EXCEPT ![t] = Kind(ret[t])] ELSE prevOp
    /\ ret' = [ret EXCEPT ![t] = r]
    /\ connection' = [connection EXCEPT ![t] =
                         IF NoConnectionUsed(r) THEN @
                         ELSE IF ClosedNotReleased(r) THEN "closed" ELSE "none"]

-----------------------------------------------------------------------------
(* save_file_info: INSERT INTO uploaded_files, refused by UNIQUE(sha_256) *)

FileRow(filename, sha_256, transaction_count) ==
    [id |-> Len(uploaded_files) + 1, filename |-> filename, sha_256 |-> sha_256,
     transaction_count |-> transaction_count]

Recorded(sha_256) == \E k \in 1..Len(uploaded_files) : uploaded_files[k].sha_256 = sha_256

\* Mutant: sha_256 without its UNIQUE constraint.
InsertFileInfoNotUnique(filename, sha_256, transaction_count) ==
    [ok |-> TRUE,
     table |-> Append(uploaded_files, FileRow(filename, sha_256, transaction_count))]

\* Mutant: INSERT OR REPLACE, which overwrites the recorded row before it fails.
InsertFileInfoOrReplace(filename, sha_256, transaction_count) ==
    IF Recorded(sha_256)
    THEN [ok |-> FALSE,
          table |-> [k \in 1..Len(uploaded_files) |->
                        IF uploaded_files[k].sha_256 = sha_256
                        THEN [uploaded_files[k] EXCEPT !.filename = filename,
                                                       !.transaction_count = transaction_count]
                        ELSE uploaded_files[k]]]
    ELSE [ok |-> TRUE,
          table |-> Append(uploaded_files, FileRow(filename, sha_256, transaction_count))]

\* Mutant: the gate admits the file without recording it.
InsertFileInfoNotRecorded(filename, sha_256, transaction_count) ==
    [ok |-> TRUE, table |-> uploaded_files]

\* The INSERT and its commit; FALSE stands for sqlite3.IntegrityError.
InsertFileInfo(filename, sha_256, transaction_count) ==
    IF Recorded(sha_256)
    THEN [ok |-> FALSE, table |-> uploaded_files]
    ELSE [ok |-> TRUE,
          table |-> Append(uploaded_files, FileRow(filename, sha_256, transaction_count))]

\* UPDATE uploaded_files SET transaction_count = ? WHERE sha_256 = ?
UpdateCount(sha_256, n) ==
    [k \in 1..Len(uploaded_files) |->
        IF uploaded_files[k].sha_256 = sha_256
        THEN [uploaded_files[k] EXCEPT !.transaction_count = n]
        ELSE uploaded_files[k]]

-----------------------------------------------------------------------------
(* process_uploaded_files *)

Status(kind, filename, n, error, missing) ==
    [kind |-> kind, filename |-> filename, n |-> n, error |-> error, missing |-> missing]

Skipped(filename)     == Status("already uploaded and will be skipped", filename, 0, None, <<>>)
Uploaded(filename, n) == Status("uploaded successfully", filename, n, None, <<>>)
Failed(filename, p)   == Status("error", filename, 0, p.error, p.missing)

RECURSIVE Concat(_)
Concat(dfs) == IF dfs = <<>> THEN <<>> ELSE Head(dfs).df \o Concat(Tail(dfs))

\* One row put into a frame that is sorted by Date, latest first, after the rows of
\* its own date.
RECURSIVE InsertByDate(_, _)
InsertByDate(row, sorted) ==
    IF sorted = <<>> THEN <<row>>
    ELSE IF Head(sorted).Date >= row.Date
    THEN <<Head(sorted)>> \o InsertByDate(row, Tail(sorted))
    ELSE <<row>> \o sorted

\* combined_df.sort('Date', descending=True)
RECURSIVE SortDateDescending(_)
SortDateDescending(rows) ==
    IF rows = <<>> THEN <<>>
    ELSE InsertByDate(rows[Len(rows)], SortDateDescending(SubSeq(rows, 1, Len(rows) - 1)))

\* What a call ends with: the rows and the status messages it returns, or the
\* exception it raises.  The record also keeps the call's arguments, the status list
\* as the call built it (the caller gets it only when the call returns), the frames
\* save_transactions has saved and the frame whose save raised.
PufRet(l, raised, data, saved, failed) ==
    [op |-> "process_uploaded_files", ok |-> ~raised, raised |-> raised,
     batch |-> l.batch, format_type |-> l.format_type,
     custom_columns |-> l.custom_columns, data |-> data,
     status_messages |-> l.status_messages, saved |-> saved, failed |-> failed]

PufLocals(batch, format_type, custom_columns) ==
    [op |-> "process_uploaded_files", batch |-> batch,
     format_type |-> format_type, custom_columns |-> custom_columns,
     i |-> 1, dfs |-> <<>>, status_messages |-> <<>>, j |-> 1]

\* The call: "if not contents_list: return None, [], []", and custom_columns, a
\* dict of the three arguments when format_type is 'custom' and None otherwise.
PufCall(t, batch, format_type, custom_date_col, custom_desc_col, custom_amount_col) ==
    /\ pc[t] = "idle"
    /\ Len(uploaded_files) + Len(batch) <= MaxFiles
    /\ LET custom_columns ==
               IF format_type = "custom"
               THEN CustomColumns(custom_date_col, custom_desc_col, custom_amount_col)
               ELSE NoCustomColumns
       IN  IF batch = <<>>
           THEN Return(t, PufRet(PufLocals(batch, format_type, custom_columns),
                                 FALSE, <<>>, <<>>, <<>>))
           ELSE Goto(t, "puf_gate", PufLocals(batch, format_type, custom_columns))
    /\ UNCHANGED <<dbVars, cacheVars, now>>

\* The end of one iteration of "for contents, filename in zip(...)": the next file,
\* or after the last one "if not dfs: return None, [], status_messages", or the saves.
PufNext(t, l) ==
    IF l.i < Len(l.batch)
    THEN Goto(t, "puf_gate", [l EXCEPT !.i = l.i + 1])
    ELSE IF l.dfs = <<>>
    THEN Return(t, PufRet(l, FALSE, <<>>, <<>>, <<>>))
    ELSE Goto(t, "st_exec", l)

\* calculate_file_hash and save_file_info up to its commit.
PufGate(t) ==
    /\ pc[t] = "puf_gate"
    /\ LET l   == loc[t]
           f   == l.batch[l.i]
           ins == InsertFileInfo(f.filename, calculate_file_hash(f.contents), 0)
       IN  IF DbFails(t, {"uploaded_files"})
           THEN /\ UNCHANGED uploaded_files      \* not an IntegrityError: it propagates
                /\ Return(t, PufRet(l, TRUE, <<>>, <<>>, <<>>))
           ELSE /\ uploaded_files' = ins.table
                /\ IF ins.ok
                   THEN Goto(t, "puf_gate_inval", l)
                   ELSE PufNext(t, [l EXCEPT !.status_messages =
                                                 Append(@, Skipped(f.filename))])
    /\ UNCHANGED <<tags, transactions, transaction_tags, nextTxId, nextTagId, schema, cacheVars, now>>

\* save_file_info after its commit: _invalidate_cache('uploaded_files'), return True.
PufGateInval(t) ==
    /\ pc[t] = "puf_gate_inval"
    /\ _invalidate_cache("uploaded_files")
    /\ Goto(t, "puf_parse", loc[t])
    /\ UNCHANGED <<dbVars, now>>

\* parse_contents, and for a parsed file the UPDATE of its transaction_count.
PufParse(t) ==
    /\ pc[t] = "puf_parse"
    /\ LET l == loc[t]
           f == l.batch[l.i]
           p == parse_contents(f.contents, l.format_type, l.custom_columns)
           h == calculate_file_hash(f.contents)
       IN  IF p.ok /\ "uploaded_files" \notin schema
           THEN /\ UNCHANGED uploaded_files      \* the UPDATE raises OperationalError
                /\ Return(t, PufRet(l, TRUE, <<>>, <<>>, <<>>))
           ELSE IF p.ok
           THEN /\ uploaded_files' = UpdateCount(h, Len(p.df))
                /\ PufNext(t, [l EXCEPT !.dfs = Append(@, [df |-> p.df, sha_256 |-> h]),
                                        !.status_messages =
                                            Append(@, Uploaded(f.filename, Len(p.df)))])
           ELSE /\ UNCHANGED uploaded_files
                /\ PufNext(t, [l EXCEPT !.status_messages = Append(@, Failed(f.filename, p))])
    /\ UNCHANGED <<tags, transactions, transaction_tags, nextTxId, nextTagId, schema, cacheVars, now>>

-----------------------------------------------------------------------------
(* save_transactions(df, sha_256), called by process_uploaded_files for    *)
(* each parsed frame (loc.dfs[loc.j]) or on its own                        *)

StRet(raised, saved, failed) ==
    [op |-> "save_transactions", ok |-> ~raised, raised |-> raised,
     saved |-> saved, failed |-> failed]

\* Lines 319-329 for the first row: the INSERT INTO transactions, then
\* "'Tags' in row and pd.notna(row['Tags'])".  Every frame of parse_contents has
\* a Tags column and database.py imports no pd: NameError.
RowLoopRaises(df) == Len(df) >= 1

\* Mutant: every statement is committed as it is executed.
RollbackNone(committed, uncommitted) == uncommitted

\* close_thread_connection() on a connection with statements executed and no
\* conn.commit(): the table is what was committed.
Rollback(committed, uncommitted) == committed

\* The INSERT INTO transactions of the first row of the frame.
FirstRowInserted(df, sha_256) ==
    transactions \cup
        {[id |-> nextTxId, date |-> Strftime(df[1].Date), description |-> df[1].Description,
          amount |-> df[1].Amount, notes |-> "", file_sha_256 |-> sha_256]}

\* What the caller does when save_transactions raises: process_uploaded_files has
\* no handler around its save loop, so the exception is its own.
StRaise(t) ==
    IF loc[t].op = "process_uploaded_files"
    THEN Return(t, PufRet(loc[t], TRUE, <<>>, SubSeq(loc[t].dfs, 1, loc[t].j - 1),
                          <<loc[t].dfs[loc[t].j]>>))
    ELSE Return(t, StRet(TRUE, <<>>, <<loc[t].dfs[loc[t].j]>>))

\* Lines 304-340.  df.copy(), df_copy[...] = ..., .iterrows() are calls on the frame
\* whose outcome is the frame library's (api_raises).  A row inserted before the
\* exception is not committed: close_thread_connection() discards it.
StExec(t) ==
    /\ pc[t] = "st_exec"
    /\ LET f == loc[t].dfs[loc[t].j]
       IN  \E api_raises \in BOOLEAN :
              IF api_raises \/ DbFails(t, {"tags"})
              THEN /\ StRaise(t)
                   /\ UNCHANGED transactions
              ELSE IF RowLoopRaises(f.df)
              THEN /\ StRaise(t)
                   /\ transactions' = Rollback(transactions, FirstRowInserted(f.df, f.sha_256))
              ELSE /\ Goto(t, "st_inval", loc[t])     \* conn.commit() of no row
                   /\ UNCHANGED transactions
    /\ UNCHANGED <<tags, uploaded_files, transaction_tags, nextTxId, nextTagId, schema,
                   cacheVars, now>>

\* Line 341, and the return to the caller's loop "for df, sha_256 in dfs".
StInval(t) ==
    /\ pc[t] = "st_inval"
    /\ _invalidate_cache("transactions")
    /\ LET l == loc[t]
       IN  IF l.op = "save_transactions"
           THEN Return(t, StRet(FALSE, l.dfs, <<>>))
           ELSE IF l.j < Len(l.dfs)
           THEN Goto(t, "st_exec", [l EXCEPT !.j = l.j + 1])
           ELSE Return(t, PufRet(l, FALSE, SortDateDescending(Concat(l.dfs)), l.dfs, <<>>))
    /\ UNCHANGED <<dbVars, now>>

StCall(t, df, sha_256) ==
    /\ pc[t] = "idle"
    /\ Goto(t, "st_exec", [op |-> "save_transactions",
                           dfs |-> <<[df |-> df, sha_256 |-> sha_256]>>, j |-> 1])
    /\ UNCHANGED <<dbVars, cacheVars, now>>

-----------------------------------------------------------------------------
(* The queries of the read operations *)

TagNamesOf(transaction_id) ==
    {g.name : g \in {x \in tags : <<transaction_id, x.id>> \in transaction_tags}}

FilesOf(sha_256) ==
    {uploaded_files[k].filename :
        k \in {x \in 1..Len(uploaded_files) : uploaded_files[x].sha_256 = sha_256}}

TxRow(tx, filename) ==
    [id |-> tx.id, date |-> tx.date, description |-> tx.description, amount |-> tx.amount,
     notes |-> tx.notes, tags |-> TagNamesOf(tx.id), file_sha_256 |-> tx.file_sha_256,
     filename |-> filename]

\* load_transactions: JOIN uploaded_files f ON t.file_sha_256 = f.sha_256
LoadTransactionsQuery ==
    UNION {{TxRow(tx, fn) : fn \in FilesOf(tx.file_sha_256)} : tx \in transactions}

\* load_transactions_with_sort: LEFT JOIN uploaded_files, and the LIKE filter
SortColumns == {"date", "description", "amount"}

SortQueryRaises(key) == key.text # None /\ key.on \notin SortColumns   \* column_map[...]

Like(tx, key) ==
    CASE key.on = "description" -> tx.description = key.text
      [] key.on = "date"        -> tx.date = key.text
      [] key.on = "amount"      -> tx.amount = key.text

SortQuery(key) ==
    UNION {{TxRow(tx, fn) :
              fn \in IF FilesOf(tx.file_sha_256) = {} THEN {None} ELSE FilesOf(tx.file_sha_256)} :
           tx \in {x \in transactions : key.text = None \/ Like(x, key)}}

UploadedFilesQuery ==
    {[filename |-> uploaded_files[k].filename, sha_256 |-> uploaded_files[k].sha_256,
      transaction_count |-> uploaded_files[k].transaction_count] :
        k \in 1..Len(uploaded_files)}

TagsQuery == tags

TagMappingQuery == {<<g.name, g.id>> : g \in tags}

\* The cache key a read operation checks, and the key it stores and fetches.
CheckedKey(op, key) ==
    CASE op = "load_transactions"           -> BaseKey("transactions")
      [] op = "load_transactions_with_sort" -> key
      [] op = "get_uploaded_files"          -> BaseKey("uploaded_files")
      [] op = "get_tags"                    -> BaseKey("tags")
      [] op = "get_tag_name_to_id_mapping"  -> BaseKey("tags")

StoredKey(op, key) ==
    IF op = "get_tag_name_to_id_mapping" THEN BaseKey("tag_mapping") ELSE CheckedKey(op, key)

Query(op, key) ==
    CASE op = "load_transactions"           -> LoadTransactionsQuery
      [] op = "load_transactions_with_sort" -> SortQuery(key)
      [] op = "get_uploaded_files"          -> UploadedFilesQuery
      [] op = "get_tags"                    -> TagsQuery
      [] op = "get_tag_name_to_id_mapping"  -> TagMappingQuery

\* The tables the query of a read names.
TablesOf(op) ==
    CASE op \in {"load_transactions", "load_transactions_with_sort"} -> Tables
      [] op = "get_uploaded_files"                                   -> {"uploaded_files"}
      [] op \in {"get_tags", "get_tag_name_to_id_mapping"}           -> {"tags"}

QueryRaises(op, key) == op = "load_transactions_with_sort" /\ SortQueryRaises(key)

-----------------------------------------------------------------------------
(* The read operations: get_tags, get_uploaded_files, load_transactions,   *)
(* get_tag_name_to_id_mapping, load_transactions_with_sort                 *)

\* What a read returns (data, or the exception it raises), where the data came from
\* (src), and what the read found when it was called (at, had, stamp).
RdRet(l, raised, src, data) ==
    [op |-> l.op, ok |-> ~raised, raised |-> raised, key |-> l.key, src |-> src,
     data |-> data, at |-> l.at, had |-> l.had, stamp |-> l.stamp]

\* The locals of a read, with the time of the call and the entry under the key the
\* read stores and fetches, as the call finds it (had: it is populated; stamp: when).
RdLocals(op, key) ==
    LET k == StoredKey(op, key)
        populated == k \in DOMAIN cache /\ k \in DOMAIN cache_timestamps
    IN  [op |-> op, key |-> key, df |-> {}, at |-> now, had |-> populated,
         stamp |-> IF populated THEN cache_timestamps[k] ELSE 0]

\* The call and "if not _is_cache_valid(...)".
RdCall(t, op, key) ==
    /\ pc[t] = "idle"
    /\ IF _is_cache_valid(CheckedKey(op, key))
       THEN Goto(t, "rd_get", RdLocals(op, key))
       ELSE Goto(t, "rd_query", RdLocals(op, key))
    /\ UNCHANGED <<dbVars, cacheVars, now>>

\* The query on the thread's connection.
RdQuery(t) ==
    /\ pc[t] = "rd_query"
    /\ LET l == loc[t]
       IN  IF l.op = "get_uploaded_files" /\ connection[t] # "closed"
                                          /\ "uploaded_files" \notin schema
           THEN Return(t, RdRet(l, FALSE, "no table", {}))   \* return pl.DataFrame()
           ELSE IF QueryRaises(l.op, l.key) \/ DbFails(t, TablesOf(l.op))
           THEN Return(t, RdRet(l, TRUE, "none", {}))
           ELSE Goto(t, "rd_update", [l EXCEPT !.df = Query(l.op, l.key)])
    /\ UNCHANGED <<dbVars, cacheVars, now>>

\* _update_cache(key, df); return df
RdUpdate(t) ==
    /\ pc[t] = "rd_update"
    /\ _update_cache(StoredKey(loc[t].op, loc[t].key), loc[t].df)
    /\ Return(t, RdRet(loc[t], FALSE, "database", loc[t].df))
    /\ UNCHANGED <<dbVars, now>>

\* cached_data = _get_cache(key); return it, or an empty frame when it is None
RdGet(t) ==
    /\ pc[t] = "rd_get"
    /\ LET got == _get_cache(StoredKey(loc[t].op, loc[t].key))
       IN  Return(t, RdRet(loc[t], FALSE, IF got.hit THEN "cache" ELSE "fallback", got.data))
    /\ UNCHANGED <<dbVars, cacheVars, now>>

-----------------------------------------------------------------------------
(* The write operations on transactions.  Each runs its statements and     *)
(* commits (one step: SQLite makes the commit atomic), then invalidates.   *)
(* An exception is caught by "except Exception", and the uncommitted       *)
(* statements are discarded when the connection is closed.                 *)

Range(s) == {s[i] : i \in 1..Len(s)}

\* PRIMARY KEY (transaction_id, tag_id): the second INSERT of a pair raises.
\* FOREIGN KEY clauses are not enforced: no PRAGMA foreign_keys = ON.
HasDuplicate(s) == \E i, j \in 1..Len(s) : i # j /\ s[i] = s[j]

WrRet(op, ok, value) == [op |-> op, ok |-> ok, raised |-> FALSE, value |-> value]

create_manual_transaction(t, date, description, amount, notes, tag_ids) ==
    /\ pc[t] = "idle"
    /\ nextTxId <= MaxTx
    /\ IF \/ HasDuplicate(tag_ids)
          \/ DbFails(t, {"transactions"} \cup
                           (IF tag_ids = <<>> THEN {} ELSE {"transaction_tags"}))
       THEN /\ Return(t, WrRet("create_manual_transaction", FALSE, 0))
            /\ UNCHANGED <<transactions, transaction_tags, nextTxId>>
       ELSE /\ transactions' = transactions \cup
                    {[id |-> nextTxId, date |-> date, description |-> description,
                      amount |-> amount, notes |-> notes, file_sha_256 |-> ManualEntry]}
            /\ transaction_tags' = transaction_tags \cup {<<nextTxId, g>> : g \in Range(tag_ids)}
            /\ nextTxId' = nextTxId + 1
            /\ Goto(t, "wr_inval", [op |-> "create_manual_transaction", value |-> nextTxId])
    /\ UNCHANGED <<tags, uploaded_files, nextTagId, schema, cacheVars, now>>

\* The DELETE of the transaction's links and the INSERTs that precede the one that
\* raises.
LinksBeforeDuplicate(transaction_id, tag_ids) ==
    LET n == CHOOSE j \in 1..Len(tag_ids) :
                 /\ \E i \in 1..(j - 1) : tag_ids[i] = tag_ids[j]
                 /\ \A k \in 1..(j - 1) : ~\E i \in 1..(k - 1) : tag_ids[i] = tag_ids[k]
    IN  {p \in transaction_tags : p[1] # transaction_id}
            \cup {<<transaction_id, tag_ids[i]>> : i \in 1..(n - 1)}

update_transaction_tags(t, transaction_id, tag_ids) ==
    /\ pc[t] = "idle"
    /\ IF DbFails(t, {"transaction_tags"})
       THEN /\ Return(t, WrRet("update_transaction_tags", FALSE, 0))
            /\ UNCHANGED transaction_tags
       ELSE IF HasDuplicate(tag_ids)
       THEN /\ Return(t, WrRet("update_transaction_tags", FALSE, 0))
            /\ transaction_tags' =
                    Rollback(transaction_tags, LinksBeforeDuplicate(transaction_id, tag_ids))
       ELSE /\ transaction_tags' =
                    {p \in transaction_tags : p[1] # transaction_id}
                    \cup {<<transaction_id, g>> : g \in Range(tag_ids)}
            /\ Goto(t, "wr_inval", [op |-> "update_transaction_tags", value |-> 0])
    /\ UNCHANGED <<tags, uploaded_files, transactions, nextTxId, nextTagId, schema, cacheVars, now>>

update_transaction_note(t, transaction_id, note) ==
    /\ pc[t] = "idle"
    /\ IF DbFails(t, {"transactions"})
       THEN /\ Return(t, WrRet("update_transaction_note", FALSE, 0))
            /\ UNCHANGED transactions
       ELSE /\ transactions' =
                    {IF x.id = transaction_id THEN [x EXCEPT !.notes = note] ELSE x :
                        x \in transactions}
            /\ Goto(t, "wr_inval", [op |-> "update_transaction_note", value |-> 0])
    /\ UNCHANGED <<tags, uploaded_files, transaction_tags, nextTxId, nextTagId, schema, cacheVars, now>>

delete_transactions(t, transaction_ids) ==
    /\ pc[t] = "idle"
    /\ IF DbFails(t, {"transactions", "transaction_tags"})
       THEN /\ Return(t, WrRet("delete_transactions", FALSE, 0))
            /\ UNCHANGED <<transactions, transaction_tags>>
       ELSE /\ transaction_tags' = {p \in transaction_tags : p[1] \notin transaction_ids}
            /\ transactions' = {x \in transactions : x.id \notin transaction_ids}
            /\ Goto(t, "wr_inval", [op |-> "delete_transactions", value |-> 0])
    /\ UNCHANGED <<tags, uploaded_files, nextTxId, nextTagId, schema, cacheVars, now>>

\* After conn.commit(): _invalidate_cache('transactions'), and the return.
WrInval(t) ==
    /\ pc[t] = "wr_inval"
    /\ _invalidate_cache("transactions")
    /\ Return(t, WrRet(loc[t].op, TRUE, loc[t].value))
    /\ UNCHANGED <<dbVars, now>>

-----------------------------------------------------------------------------
(* add_tag, update_tag.  A tag is its id and its name; description and      *)
(* color are columns no operation reads back into a decision.               *)

TagRet(op, tag_id, name, ok, raised) ==
    [op |-> op, tag_id |-> tag_id, name |-> name, ok |-> ok, raised |-> raised]

\* Mutant: name without its UNIQUE constraint.
NameHeldNever(name, tag_id) == FALSE

\* name TEXT NOT NULL UNIQUE: a row other than tag_id holds the name.
NameHeld(name, tag_id) == \E g \in tags : g.name = name /\ g.id # tag_id

add_tag(t, name) ==
    /\ pc[t] = "idle"
    /\ nextTagId <= Len(DefaultTagNames) + MaxNewTags
    /\ IF DbFails(t, {"tags"})
       THEN /\ Return(t, TagRet("add_tag", 0, name, FALSE, TRUE))    \* not caught
            /\ UNCHANGED <<tags, nextTagId>>
       ELSE IF NameHeld(name, 0)
       THEN /\ Return(t, TagRet("add_tag", 0, name, FALSE, FALSE))   \* IntegrityError
            /\ UNCHANGED <<tags, nextTagId>>
       ELSE /\ tags' = tags \cup {[id |-> nextTagId, name |-> name]}
            /\ nextTagId' = nextTagId + 1
            /\ Goto(t, "tag_inval", [op |-> "add_tag", tag_id |-> 0, name |-> name])
    /\ UNCHANGED <<uploaded_files, transactions, transaction_tags, nextTxId, schema,
                   cacheVars, now>>

update_tag(t, tag_id, name) ==
    /\ pc[t] = "idle"
    /\ IF DbFails(t, {"tags"})
       THEN /\ Return(t, TagRet("update_tag", tag_id, name, FALSE, TRUE))
            /\ UNCHANGED tags
       ELSE IF (\E g \in tags : g.id = tag_id) /\ NameHeld(name, tag_id)
       THEN /\ Return(t, TagRet("update_tag", tag_id, name, FALSE, FALSE))
            /\ UNCHANGED tags
       ELSE /\ tags' = {IF g.id = tag_id THEN [g EXCEPT !.name = name] ELSE g : g \in tags}
            /\ Goto(t, "tag_inval", [op |-> "update_tag", tag_id |-> tag_id, name |-> name])
    /\ UNCHANGED <<uploaded_files, transactions, transaction_tags, nextTxId, nextTagId,
                   schema, cacheVars, now>>

\* DELETE FROM tags WHERE id = ?: the rows of transaction_tags that name the tag
\* are left as they are (no foreign key is enforced).
delete_tag(t, tag_id) ==
    /\ pc[t] = "idle"
    /\ IF DbFails(t, {"tags"})
       THEN /\ Return(t, TagRet("delete_tag", tag_id, None, FALSE, TRUE))
            /\ UNCHANGED tags
       ELSE /\ tags' = {g \in tags : g.id # tag_id}
            /\ Goto(t, "tag_inval", [op |-> "delete_tag", tag_id |-> tag_id, name |-> None])
    /\ UNCHANGED <<uploaded_files, transactions, transaction_tags, nextTxId, nextTagId,
                   schema, cacheVars, now>>

\* After conn.commit(): _invalidate_cache('tags'), return True.
TagInval(t) ==
    /\ pc[t] = "tag_inval"
    /\ _invalidate_cache("tags")
    /\ Return(t, TagRet(loc[t].op, loc[t].tag_id, loc[t].name, TRUE, FALSE))
    /\ UNCHANGED <<dbVars, now>>

-----------------------------------------------------------------------------
(* add_tag against a locked database: the INSERT and the commit as two steps *)

\* c.execute is called once in add_tag, with no loop around it; executes counts the
\* calls the operation made.
LockRet(name, ok, error) ==
    [op |-> "add_tag", tag_id |-> 0, name |-> name, ok |-> ok, raised |-> error # "none",
     error |-> error, executes |-> 1]

\* The INSERT once the lock is free: refused by UNIQUE(name), or accepted and not
\* yet committed.
InsertTag(t, name) ==
    IF NameHeld(name, 0)
    THEN Return(t, LockRet(name, FALSE, "none"))
    ELSE Goto(t, "tag_commit", [op |-> "add_tag", tag_id |-> 0, name |-> name])

\* conn = get_db_connection(); c.execute(INSERT ...): with the lock held by another
\* connection SQLite waits inside execute.
add_tag_execute(t, name) ==
    /\ pc[t] = "idle"
    /\ nextTagId <= Len(DefaultTagNames) + MaxNewTags
    /\ IF DbFails(t, {"tags"})
       THEN Return(t, LockRet(name, FALSE, "closed"))
       ELSE IF LockHeld(t)
       THEN Goto(t, "tag_busy", [op |-> "add_tag", tag_id |-> 0, name |-> name,
                                 since |-> now])
       ELSE InsertTag(t, name)
    /\ UNCHANGED <<dbVars, cacheVars, now>>

\* The wait inside execute ends when the lock is free, or after timeout seconds with
\* sqlite3.OperationalError (database is locked), which add_tag does not catch.
add_tag_busy(t) ==
    /\ pc[t] = "tag_busy"
    /\ IF now - loc[t].since >= BusyTimeout
       THEN Return(t, LockRet(loc[t].name, FALSE, "locked"))
       ELSE /\ ~LockHeld(t)
            /\ InsertTag(t, loc[t].name)
    /\ UNCHANGED <<dbVars, cacheVars, now>>

\* conn.commit(): the row is in the table and the lock is released.
add_tag_commit(t) ==
    /\ pc[t] = "tag_commit"
    /\ tags' = tags \cup {[id |-> nextTagId, name |-> loc[t].name]}
    /\ nextTagId' = nextTagId + 1
    /\ Goto(t, "tag_inval", loc[t])
    /\ UNCHANGED <<uploaded_files, transactions, transaction_tags, nextTxId, schema,
                   cacheVars, now>>

-----------------------------------------------------------------------------
(* init_db, reset_database *)

TableChoices == {"all", "transactions", "tags", "uploaded_files", "transaction_tags"}

Named(table) == IF table = "all" THEN Tables ELSE {table}

AdminRet(op, table, raised) == [op |-> op, table |-> table, ok |-> ~raised, raised |-> raised]

\* INSERT OR IGNORE of default_tags: the names not in the table, with the next ids in
\* the order of the list.
MissingDefaults == SelectSeq(DefaultTagNames, LAMBDA n : \A g \in tags : g.name # n)

\* The statements of init_db up to conn.commit(): CREATE TABLE IF NOT EXISTS for the
\* named tables, and the default tags when tags is among them.
CreateTables(table) ==
    /\ schema' = schema \cup Named(table)
    /\ IF "tags" \in Named(table)
       THEN /\ tags' = tags \cup {[id |-> nextTagId + i - 1, name |-> MissingDefaults[i]] :
                                     i \in 1..Len(MissingDefaults)}
            /\ nextTagId' = nextTagId + Len(MissingDefaults)
       ELSE UNCHANGED <<tags, nextTagId>>
    /\ UNCHANGED <<uploaded_files, transactions, transaction_tags, nextTxId>>

\* DROP TABLE IF EXISTS for the named tables, and conn.commit().
DropTables(table) ==
    LET d == Named(table)
    IN  /\ schema' = schema \ d
        /\ tags' = IF "tags" \in d THEN {} ELSE tags
        /\ nextTagId' = IF "tags" \in d THEN 1 ELSE nextTagId
        /\ uploaded_files' = IF "uploaded_files" \in d THEN <<>> ELSE uploaded_files
        /\ transactions' = IF "transactions" \in d THEN {} ELSE transactions
        /\ nextTxId' = IF "transactions" \in d THEN 1 ELSE nextTxId
        /\ transaction_tags' = IF "transaction_tags" \in d THEN {} ELSE transaction_tags

\* The body of init_db for the thread that runs it: conn.cursor() raises on a closed
\* connection; "finally: conn.close()" in both cases.
InitDbBody(t, op, table) ==
    IF connection[t] = "closed"
    THEN /\ Return(t, AdminRet(op, table, TRUE))
         /\ UNCHANGED dbVars
    ELSE /\ CreateTables(table)
         /\ Return(t, AdminRet(op, table, FALSE))

init_db(t, table) ==
    /\ pc[t] = "idle"
    /\ InitDbBody(t, "init_db", table)
    /\ UNCHANGED <<cacheVars, now>>

\* reset_database up to the conn.close() of its "finally".
reset_database(t, table) ==
    /\ pc[t] = "idle"
    /\ IF connection[t] = "closed"
       THEN /\ Return(t, AdminRet("reset_database", table, TRUE))
            /\ UNCHANGED dbVars
       ELSE /\ DropTables(table)
            /\ Goto(t, "reset_init", [op |-> "reset_database", table |-> table])
    /\ UNCHANGED <<cacheVars, now>>

\* The last line of reset_database: init_db(table).
ResetInit(t) ==
    /\ pc[t] = "reset_init"
    /\ InitDbBody(t, "reset_database", loc[t].table)
    /\ UNCHANGED <<cacheVars, now>>

-----------------------------------------------------------------------------
(* time.time() *)

Tick ==
    /\ now < MaxTicks * TickLen
    /\ now' = now + TickLen
    /\ UNCHANGED <<dbVars, cacheVars, connection, pc, loc, ret, prevOp>>

-----------------------------------------------------------------------------
(* The state after "database_main.py init all", with no callback running *)

EmptyMap == [k \in {} |-> 0]

InitDb ==
    /\ tags = DefaultTags
    /\ uploaded_files = <<>>
    /\ transactions = {}
    /\ transaction_tags = {}
    /\ nextTxId = 1
    /\ nextTagId = Len(DefaultTagNames) + 1
    /\ schema = Tables
    /\ cache = EmptyMap
    /\ cache_timestamps = EmptyMap
    /\ now = 0

InitThreads(T) ==
    /\ pc = [t \in T |-> "idle"]
    /\ loc = [t \in T |-> IdleLoc]
    /\ ret = [t \in T |-> NoRet]
    /\ prevOp = [t \in T |-> "other"]
    /\ connection = [t \in T |-> "none"]

-----------------------------------------------------------------------------
(* Imports: one callback thread uploading batches, reading the file list   *)
(* and listing transactions                                                *)

Upload(mime, data, filename) ==
    [contents |-> [mime |-> mime, data |-> data], filename |-> filename]

Uploads ==
    {Upload("data:text/csv;base64", "d1", "jan.csv"),
     Upload("data:application/vnd.ms-excel;base64", "d1", "copy of jan.csv"),
     Upload("data:text/csv;base64", "d2", "tagged.csv"),
     Upload("data:text/csv;base64", "d3", "no amount.csv"),
     Upload("data:text/csv;base64", "d4", "blank.csv"),
     Upload("data:text/csv;base64", "d5", "bad date.csv"),
     Upload("data:text/csv;base64", "d6", "abc.csv")}

RECURSIVE SeqsUpTo(_, _)
SeqsUpTo(S, n) ==
    IF n = 0 THEN {<<>>}
    ELSE SeqsUpTo(S, n - 1) \cup {Append(q, x) : q \in SeqsUpTo(S, n - 1), x \in S}

Batches == SeqsUpTo(Uploads, MaxBatch)

\* The format of the upload form with its three column inputs: left empty, or (for
\* 'custom') naming the columns.
ImportFormats ==
    {<<"standard", None, None, None>>, <<"bank", None, None, None>>,
     <<"custom", None, "Details", "Amount">>, <<"custom", "Date", "Description", "Amount">>}

NextImport ==
    \/ \E t \in Threads, b \in Batches, f \in ImportFormats :
          PufCall(t, b, f[1], f[2], f[3], f[4])
    \/ \E t \in Threads : PufGate(t)
    \/ \E t \in Threads : PufGateInval(t)
    \/ \E t \in Threads : PufParse(t)
    \/ \E t \in Threads : StExec(t)
    \/ \E t \in Threads : StInval(t)
    \/ \E t \in Threads : RdCall(t, "get_uploaded_files", BaseKey("uploaded_files"))
    \/ \E t \in Threads : RdCall(t, "load_transactions", BaseKey("transactions"))
    \/ \E t \in Threads : RdQuery(t)
    \/ \E t \in Threads : RdUpdate(t)
    \/ \E t \in Threads : RdGet(t)

\* The database after "database_main.py init all" and one
\* create_manual_transaction(..., tags=[1, 2]).
InitImport ==
    /\ tags = DefaultTags
    /\ uploaded_files = <<>>
    /\ transactions = {[id |-> 1, date |-> "2024-01-05", description |-> "Coffee Shop",
                        amount |-> "4.50", notes |-> None, file_sha_256 |-> ManualEntry]}
    /\ transaction_tags = {<<1, 1>>, <<1, 2>>}
    /\ nextTxId = 2
    /\ nextTagId = Len(DefaultTagNames) + 1
    /\ schema = Tables
    /\ cache = EmptyMap
    /\ cache_timestamps = EmptyMap
    /\ now = 0
    /\ InitThreads({1})

SpecImport == InitImport /\ [][NextImport]_vars

-----------------------------------------------------------------------------
(* Transactions and the cache: callbacks that enter, tag, annotate, delete *)
(* and list transactions                                                   *)

TagLists == {<<>>, <<1, 2>>, <<2, 2>>}

DefaultSort == SortKey("date", TRUE, None, None)
SearchSort  == SortKey("amount", FALSE, "Rent", "description")
BadSearch   == SortKey("date", TRUE, "Rent", None)

SortKeys == {DefaultSort, SearchSort, BadSearch}

Frames == {<<>>, CSV["d1"].rows}

CallWrite(t) ==
    \/ \E d \in {"Coffee Shop", "Rent"}, g \in TagLists :
          create_manual_transaction(t, "2024-01-05", d, "4.50", None, g)
    \/ \E id \in 1..MaxTx, g \in TagLists : update_transaction_tags(t, id, g)
    \/ \E id \in 1..MaxTx : update_transaction_note(t, id, "lunch")
    \/ \E ids \in {{1}, {1, 2}} : delete_transactions(t, ids)
    \/ \E df \in Frames : StCall(t, df, SHA256["d1"])

CallRead(t) ==
    \/ RdCall(t, "load_transactions", BaseKey("transactions"))
    \/ \E k \in SortKeys : RdCall(t, "load_transactions_with_sort", k)
    \/ RdCall(t, "get_tags", BaseKey("tags"))

NextCache ==
    \/ \E t \in Threads : CallWrite(t)
    \/ \E t \in Threads : CallRead(t)
    \/ \E t \in Threads : StExec(t)
    \/ \E t \in Threads : StInval(t)
    \/ \E t \in Threads : WrInval(t)
    \/ \E t \in Threads : RdQuery(t)
    \/ \E t \in Threads : RdUpdate(t)
    \/ \E t \in Threads : RdGet(t)

InitCache == InitDb /\ InitThreads({1})

SpecCache == InitCache /\ [][NextCache]_vars

(* Two callback threads, one listing transactions and one entering them *)

NextRace ==
    \/ \E t \in Threads :
          create_manual_transaction(t, "2024-01-05", "Rent", "1500", None, <<1>>)
    \/ \E t \in Threads : update_transaction_note(t, 1, "lunch")
    \/ \E t \in Threads : WrInval(t)
    \/ \E t \in Threads : RdCall(t, "load_transactions", BaseKey("transactions"))
    \/ \E t \in Threads : RdCall(t, "load_transactions_with_sort", DefaultSort)
    \/ \E t \in Threads : RdQuery(t)
    \/ \E t \in Threads : RdUpdate(t)
    \/ \E t \in Threads : RdGet(t)

InitRace == InitDb /\ InitThreads({1, 2})

SpecRace == InitRace /\ [][NextRace]_vars

(* Two callback threads, each uploading one file at a time or entering a    *)
(* transaction by hand                                                      *)

SharedUploads ==
    {Upload("data:text/csv;base64", "d1", "jan.csv"),
     Upload("data:application/vnd.ms-excel;base64", "d1", "copy of jan.csv"),
     Upload("data:text/csv;base64", "d4", "blank.csv")}

NextShared ==
    \/ \E t \in Threads, u \in SharedUploads :
          PufCall(t, <<u>>, "standard", None, None, None)
    \/ \E t \in Threads : PufGate(t)
    \/ \E t \in Threads : PufGateInval(t)
    \/ \E t \in Threads : PufParse(t)
    \/ \E t \in Threads : StExec(t)
    \/ \E t \in Threads : StInval(t)
    \/ \E t \in Threads :
          create_manual_transaction(t, "2024-01-05", "Coffee Shop", "4.50", None, <<1>>)
    \/ \E t \in Threads : WrInval(t)

InitShared == InitDb /\ InitThreads({1, 2})

SpecShared == InitShared /\ [][NextShared]_vars

(* One callback thread reading while the clock advances, with a write that  *)
(* invalidates                                                              *)

NextTtl ==
    \/ Tick
    \/ \E t \in Threads : RdCall(t, "load_transactions", BaseKey("transactions"))
    \/ \E t \in Threads : RdCall(t, "load_transactions_with_sort", DefaultSort)
    \/ \E t \in Threads : RdCall(t, "get_tags", BaseKey("tags"))
    \/ \E t \in Threads : RdCall(t, "get_tag_name_to_id_mapping", BaseKey("tags"))
    \/ \E t \in Threads : RdQuery(t)
    \/ \E t \in Threads : RdUpdate(t)
    \/ \E t \in Threads : RdGet(t)
    \/ \E t \in Threads :
          create_manual_transaction(t, "2024-01-05", "Coffee Shop", "4.50", None, <<1>>)
    \/ \E t \in Threads : WrInval(t)

InitTtl == InitDb /\ InitThreads({1})

SpecTtl == InitTtl /\ [][NextTtl]_vars

(* One thread that initialises and resets the database, lists the tags and  *)
(* adds one                                                                 *)

NextAdmin ==
    \/ \E t \in Threads, table \in TableChoices : init_db(t, table)
    \/ \E t \in Threads, table \in TableChoices : reset_database(t, table)
    \/ \E t \in Threads : ResetInit(t)
    \/ \E t \in Threads, n \in {"Groceries", "Pets"} : add_tag(t, n)
    \/ \E t \in Threads : TagInval(t)
    \/ \E t \in Threads : RdCall(t, "get_tags", BaseKey("tags"))
    \/ \E t \in Threads : RdQuery(t)
    \/ \E t \in Threads : RdUpdate(t)
    \/ \E t \in Threads : RdGet(t)

InitAdmin == InitImport

SpecAdmin == InitAdmin /\ [][NextAdmin]_vars

(* Two threads adding tags while time passes *)

NextLock ==
    \/ \E t \in Threads, n \in {"Groceries", "Pets", "Rent"} : add_tag_execute(t, n)
    \/ \E t \in Threads : add_tag_busy(t)
    \/ \E t \in Threads : add_tag_commit(t)
    \/ \E t \in Threads : TagInval(t)
    \/ Tick

InitLock == InitDb /\ InitThreads({1, 2})

SpecLock == InitLock /\ [][NextLock]_vars

(* One callback thread managing tags *)

NextTags ==
    \/ \E t \in Threads, n \in {"Groceries", "Pets"} : add_tag(t, n)
    \/ \E t \in Threads, id \in {1, 2}, n \in {"Dining", "Food"} : update_tag(t, id, n)
    \/ \E t \in Threads, id \in {1, 2} : delete_tag(t, id)
    \/ \E t \in Threads : TagInval(t)
    \/ \E t \in Threads : RdCall(t, "get_tags", BaseKey("tags"))
    \/ \E t \in Threads : RdCall(t, "get_tag_name_to_id_mapping", BaseKey("tags"))
    \/ \E t \in Threads : RdQuery(t)
    \/ \E t \in Threads : RdUpdate(t)
    \/ \E t \in Threads : RdGet(t)

InitTags == InitDb /\ InitThreads({1})

SpecTags == InitTags /\ [][NextTags]_vars

(* Two callback threads, each uploading one file at a time or listing the  *)
(* uploaded files                                                          *)

CountUploads ==
    {Upload("data:text/csv;base64", "d1", "jan.csv"),
     Upload("data:text/csv;base64", "d4", "blank.csv")}

NextCount ==
    \/ \E t \in Threads, u \in CountUploads :
          PufCall(t, <<u>>, "standard", None, None, None)
    \/ \E t \in Threads : PufGate(t)
    \/ \E t \in Threads : PufGateInval(t)
    \/ \E t \in Threads : PufParse(t)
    \/ \E t \in Threads : StExec(t)
    \/ \E t \in Threads : StInval(t)
    \/ \E t \in Threads : RdCall(t, "get_uploaded_files", BaseKey("uploaded_files"))
    \/ \E t \in Threads : RdQuery(t)
    \/ \E t \in Threads : RdUpdate(t)
    \/ \E t \in Threads : RdGet(t)

InitCount == InitDb /\ InitThreads({1, 2})

SpecCount == InitCount /\ [][NextCount]_vars

(* One callback thread that renames and deletes tags, tags and deletes     *)
(* transactions and lists them, on a database with one imported file       *)

NextLedger ==
    \/ \E t \in Threads, id \in {1, 2}, n \in {"Dining", "Food"} : update_tag(t, id, n)
    \/ \E t \in Threads, id \in {1, 2} : delete_tag(t, id)
    \/ \E t \in Threads : TagInval(t)
    \/ \E t \in Threads :
          create_manual_transaction(t, "2024-01-05", "Rent", "1500", None, <<1>>)
    \/ \E t \in Threads, id \in 1..MaxTx, g \in TagLists : update_transaction_tags(t, id, g)
    \/ \E t \in Threads, ids \in {{1}, {1, 2}} : delete_transactions(t, ids)
    \/ \E t \in Threads : WrInval(t)
    \/ \E t \in Threads : RdCall(t, "load_transactions", BaseKey("transactions"))
    \/ \E t \in Threads : RdCall(t, "load_transactions_with_sort", DefaultSort)
    \/ \E t \in Threads : RdCall(t, "get_uploaded_files", BaseKey("uploaded_files"))
    \/ \E t \in Threads : RdQuery(t)
    \/ \E t \in Threads : RdUpdate(t)
    \/ \E t \in Threads : RdGet(t)

\* The database after "database_main.py init all", an import of jan.csv (its two rows
\* counted, its save failed) and one create_manual_transaction(..., tags=[1, 2]).
InitLedger ==
    /\ tags = DefaultTags
    /\ uploaded_files = <<[id |-> 1, filename |-> "jan.csv", sha_256 |-> SHA256["d1"],
                           transaction_count |-> 2]>>
    /\ transactions = {[id |-> 1, date |-> "2024-01-05", description |-> "Coffee Shop",
                        amount |-> "4.50", notes |-> None, file_sha_256 |-> ManualEntry]}
    /\ transaction_tags = {<<1, 1>>, <<1, 2>>}
    /\ nextTxId = 2
    /\ nextTagId = Len(DefaultTagNames) + 1
    /\ schema = Tables
    /\ cache = EmptyMap
    /\ cache_timestamps = EmptyMap
    /\ now = 0
    /\ InitThreads({1})

SpecLedger == InitLedger /\ [][NextLedger]_vars

-----------------------------------------------------------------------------
(* Properties of the import pipeline (SpecImport) *)

Importing(t) == pc[t] # "idle" /\ loc[t].op = "process_uploaded_files"

Finished(t) == pc[t] = "idle" /\ ret[t].op = "process_uploaded_files"

\* The status list of a running or finished call.
StatusList(t) == IF pc[t] = "idle" THEN ret[t].status_messages ELSE loc[t].status_messages

CallFormat(t) == IF pc[t] = "idle" THEN ret[t].format_type ELSE loc[t].format_type

CurrentFile(t) == loc[t].batch[loc[t].i]

\* Thread t is about to call save_file_info with a fingerprint that is recorded.
AtGateRecorded(t) ==
    /\ pc[t] = "puf_gate"
    /\ Recorded(calculate_file_hash(CurrentFile(t).contents))

Stepped(t) == pc'[t] # pc[t] \/ loc'[t] # loc[t]

RowsOf(sha_256) == {tx \in transactions : tx.file_sha_256 = sha_256}

UniqueFingerprints ==
    \A a, b \in 1..Len(uploaded_files) :
        uploaded_files[a].sha_256 = uploaded_files[b].sha_256 => a = b

\* C1: uploaded_files never holds two records with one fingerprint, and every upload
\* whose fingerprint is already recorded gets the status "<filename> was already
\* uploaded and will be skipped", whatever its filename, mime prefix or batch.
C1_OneRecordPerFingerprint ==
    /\ []UniqueFingerprints
    /\ [][\A t \in Threads :
            (AtGateRecorded(t) /\ Stepped(t)) =>
                StatusList(t)' =
                    Append(loc[t].status_messages, Skipped(CurrentFile(t).filename))]_vars

\* The same content, under another name and mime prefix, uploaded in a second call.
C1_Witness ==
    \E t \in Threads :
        /\ Finished(t)
        /\ ret[t].status_messages = <<Skipped("copy of jan.csv")>>
        /\ Len(uploaded_files) = 1
        /\ uploaded_files[1].filename = "jan.csv"

\* C2: a save_file_info call with a recorded fingerprint changes no table and no
\* cache entry, and process_uploaded_files goes on to the next file without parsing
\* this one (no frame is added to the frames to be saved).
C2_DuplicateChangesNothing ==
    [][\A t \in Threads :
          (AtGateRecorded(t) /\ Stepped(t)) =>
              /\ UNCHANGED <<dbVars, cacheVars>>
              /\ pc'[t] \in {"puf_gate", "st_exec", "idle"}
              /\ pc'[t] # "idle" => loc'[t].dfs = loc[t].dfs
              /\ pc'[t] = "idle" => ret'[t].data = <<>>]_vars

\* A duplicate was skipped while the tables and the cache held data.
C2_Witness ==
    \E t \in Threads :
        /\ Finished(t)
        /\ ret[t].status_messages = <<Skipped("copy of jan.csv")>>
        /\ transactions # {}
        /\ transaction_tags # {}
        /\ BaseKey("uploaded_files") \in DOMAIN cache
        /\ cache[BaseKey("uploaded_files")] # {}
        /\ BaseKey("transactions") \in DOMAIN cache

\* C3: once the call has finished, every file reported "uploaded successfully (N
\* transactions)" has exactly N persisted transactions and transaction_count N.
C3_ReportedRowsArePersisted ==
    \A t \in Threads :
        Finished(t) =>
            \A k \in 1..Len(ret[t].status_messages) :
                LET s == ret[t].status_messages[k]
                IN  s.kind = "uploaded successfully" =>
                        \A r \in 1..Len(uploaded_files) :
                            uploaded_files[r].filename = s.filename =>
                                /\ uploaded_files[r].transaction_count = s.n
                                /\ Cardinality(RowsOf(uploaded_files[r].sha_256)) = s.n

\* C4: a call on k files returns (does not raise) k status messages, one per file in
\* input order, whatever failed for one of the files.
C4_OneStatusPerFile ==
    \A t \in Threads :
        Finished(t) =>
            /\ ~ret[t].raised
            /\ Len(ret[t].status_messages) = Len(ret[t].batch)
            /\ \A k \in 1..Len(ret[t].batch) :
                   ret[t].status_messages[k].filename = ret[t].batch[k].filename

\* str(row['Tags']).split(','), tag.strip(), "if tag_name in tags"
Strip(token) == token.name

ExpectedLinks(tokens) ==
    {g.id : g \in {x \in tags : \E i \in 1..Len(tokens) : Strip(tokens[i]) = x.name}}

LinksOf(transaction_id) == {p[2] : p \in {q \in transaction_tags : q[1] = transaction_id}}

HasTagText(df) == \E i \in 1..Len(df) : df[i].Tags # <<>>

\* C9: a frame whose rows name tags (existing, unknown, repeated) is saved without
\* failing, and each of its rows is persisted with exactly the links to the existing
\* tags its Tags text names.
C9_TagTextNeverFailsTheFile ==
    \A t \in Threads :
        (pc[t] = "idle" /\ ret[t].op \in {"process_uploaded_files", "save_transactions"}) =>
            \A f \in Range(ret[t].saved) \cup Range(ret[t].failed) :
                HasTagText(f.df) =>
                    /\ f \notin Range(ret[t].failed)
                    /\ \A i \in 1..Len(f.df) :
                          \E tx \in RowsOf(f.sha_256) :
                              /\ tx.amount = f.df[i].Amount
                              /\ LinksOf(tx.id) = ExpectedLinks(f.df[i].Tags)

UploadNamed(filename) == CHOOSE u \in Uploads : u.filename = filename

NumericRows(rows) == Cardinality({i \in 1..Len(rows) : rows[i].Amount \in NumericCells})

\* C10: every persisted amount is numeric, and a file whose mapped columns are
\* present and whose dates parse is never failed for an Amount that is no number:
\* it is reported uploaded with N counting the rows with a numeric Amount.
C10_NonNumericRowsAreDropped ==
    /\ \A tx \in transactions : tx.amount \in NumericCells
    /\ \A t \in Threads :
          (Importing(t) \/ Finished(t)) =>
              \A k \in 1..Len(StatusList(t)) :
                  LET s   == StatusList(t)[k]
                      csv == CSV[UploadNamed(s.filename).contents.data]
                  IN  (/\ s.kind # "already uploaded and will be skipped"
                       /\ CallFormat(t) = "standard"
                       /\ StdCols \subseteq csv.cols
                       /\ csv.dateOk) =>
                          /\ s.kind = "uploaded successfully"
                          /\ s.n = NumericRows(csv.rows)

CallColumns(t) == IF pc[t] = "idle" THEN ret[t].custom_columns ELSE loc[t].custom_columns

\* The mapped columns the CSV of an upload lacks, in the order of the mapping.
AbsentCols(t, filename) ==
    MissingCols(format_mappings(CallFormat(t), CallColumns(t)),
                CSV[UploadNamed(filename).contents.data].cols)

\* C11: a file that passed the gate and whose CSV lacks columns of the resolved
\* mapping gets an error status whose message is the missing-columns message naming
\* every absent mapped column, and no transaction of that file is persisted.
C11_MissingColumnsAreAllNamed ==
    \A t \in Threads :
        (Importing(t) \/ Finished(t)) =>
            \A k \in 1..Len(StatusList(t)) :
                LET s == StatusList(t)[k]
                IN  (/\ s.kind # "already uploaded and will be skipped"
                     /\ AbsentCols(t, s.filename) # <<>>) =>
                        /\ s.kind = "error"
                        /\ s.error = "missing columns"
                        /\ s.missing = AbsentCols(t, s.filename)
                        /\ RowsOf(calculate_file_hash(UploadNamed(s.filename).contents)) = {}

\* Thread t is in, or has just left, save_transactions for a frame of its import.
Saving(t) == pc[t] \in {"st_exec", "st_inval"} /\ loc[t].op = "process_uploaded_files"

\* C13: every transactions row carries 'manual_entry' or the sha_256 of a row of
\* uploaded_files, and when an import saves the frame of a file, the file's row is
\* already in uploaded_files.
C13_TransactionsReferenceAFile ==
    /\ \A tx \in transactions :
          tx.file_sha_256 = ManualEntry \/ Recorded(tx.file_sha_256)
    /\ \A t \in Threads :
          Saving(t) => \A k \in 1..Len(loc[t].dfs) : Recorded(loc[t].dfs[k].sha_256)

\* An import is saving the two rows of jan.csv while a manual transaction exists.
C13_Witness ==
    /\ \E tx \in transactions : tx.file_sha_256 = ManualEntry
    /\ \E t \in Threads :
          /\ Saving(t)
          /\ Len(loc[t].dfs[loc[t].j].df) = 2
          /\ Recorded(loc[t].dfs[loc[t].j].sha_256)

\* The threads whose last call was on one file with fingerprint h, and those of them
\* whose call admitted the file (its status is not the duplicate one).
CalledWith(h) ==
    {t \in Threads : /\ Finished(t)
                     /\ Len(ret[t].batch) = 1
                     /\ calculate_file_hash(ret[t].batch[1].contents) = h}

Admitting(h) ==
    {t \in CalledWith(h) :
        ret[t].status_messages[1].kind # "already uploaded and will be skipped"}

AdmittedOnce(h) ==
    /\ Cardinality(Admitting(h)) <= 1
    /\ Cardinality({k \in 1..Len(uploaded_files) : uploaded_files[k].sha_256 = h}) = 1
    /\ \A t \in CalledWith(h) \ Admitting(h) :
          ret[t].status_messages = <<Skipped(ret[t].batch[1].filename)>>

\* C14: when two threads have each finished a call on the same content, the file is
\* recorded once, at most one of the calls admitted it and the other reports it as
\* already uploaded, and the transactions of the admitted file are persisted once:
\* as many rows carry its fingerprint as the admitting call reports.
C14_ConcurrentUploadsAdmitOne ==
    \A h \in {SHA256[d] : d \in Data} :
        Cardinality(CalledWith(h)) = 2 =>
            /\ AdmittedOnce(h)
            /\ \A t \in Admitting(h) :
                  LET s == ret[t].status_messages[1]
                  IN  s.kind = "uploaded successfully" => Cardinality(RowsOf(h)) = s.n

\* The name a field of the form maps to: the caller's when given, else the standard.
Supplied(given, standard) == IF given # None THEN given ELSE standard

\* C12: once a 'custom' call has parsed a file, the mapping it parsed with gives each
\* field the caller-supplied column name, or the standard name where none was given.
C12_CustomFallsBackPerField ==
    \A t \in Threads :
        (/\ Importing(t) \/ Finished(t)
         /\ CallFormat(t) = "custom"
         /\ \E k \in 1..Len(StatusList(t)) :
                StatusList(t)[k].kind # "already uploaded and will be skipped") =>
            LET m == format_mappings(CallFormat(t), CallColumns(t))
                c == CallColumns(t)
            IN  /\ m.date = Supplied(c.date, StandardMapping.date)
                /\ m.description = Supplied(c.description, StandardMapping.description)
                /\ m.amount = Supplied(c.amount, StandardMapping.amount)

-----------------------------------------------------------------------------
(* Properties of the cache (SpecCache, SpecRace) *)

Loads == {"load_transactions", "load_transactions_with_sort"}

TxFamily(k) == k.ns = "transactions" \/ k.ns = "transactions_sort_"

\* C5: in one thread, a load_transactions or load_transactions_with_sort call that
\* follows a successful write to transactions is not served from the cache: what it
\* returns is the result of its query on the database as the write left it.
C5_ReadAfterWriteIsFresh ==
    \A t \in Threads :
        (/\ pc[t] = "idle"
         /\ prevOp[t] = "write"
         /\ ret[t].op \in Loads
         /\ ~ret[t].raised) =>
            /\ ret[t].src = "database"
            /\ ret[t].data = Query(ret[t].op, ret[t].key)

\* A sorted load right after update_transaction_note returns the new note.
C5_Witness ==
    \E t \in Threads :
        /\ pc[t] = "idle"
        /\ prevOp[t] = "write"
        /\ ret[t].op = "load_transactions_with_sort"
        /\ ret[t].key = SearchSort
        /\ \E r \in ret[t].data : r.notes = "lunch" /\ r.tags = {"Groceries", "Dining"}

AllIdle == \A t \in Threads : pc[t] = "idle"

\* C6: with several threads, once every operation has returned, no entry of the
\* transactions family in the cache differs from the result of its query.
C6_NoStaleEntry ==
    AllIdle =>
        \A k \in DOMAIN cache :
            /\ k.ns = "transactions" => cache[k] = LoadTransactionsQuery
            /\ k.ns = "transactions_sort_" => cache[k] = SortQuery(k)

AtInvalidateTransactions(t) == pc[t] \in {"wr_inval", "st_inval"}

\* C7: the step _invalidate_cache('transactions') leaves neither dictionary with the
\* key 'transactions' or a 'transactions_sort_' key, and leaves every other entry as
\* it was.
C7_InvalidateRemovesTheFamily ==
    [][\A t \in Threads :
          (AtInvalidateTransactions(t) /\ Stepped(t)) =>
              /\ \A k \in (DOMAIN cache') \cup (DOMAIN cache_timestamps') : ~TxFamily(k)
              /\ \A k \in DOMAIN cache :
                    ~TxFamily(k) => k \in DOMAIN cache' /\ cache'[k] = cache[k]
              /\ \A k \in DOMAIN cache_timestamps :
                    ~TxFamily(k) =>
                        /\ k \in DOMAIN cache_timestamps'
                        /\ cache_timestamps'[k] = cache_timestamps[k]]_vars

\* A write is about to invalidate while the base key, two sorted keys and 'tags'
\* are cached.
C7_Witness ==
    \E t \in Threads :
        /\ AtInvalidateTransactions(t)
        /\ {BaseKey("transactions"), DefaultSort, SearchSort, BaseKey("tags")}
               \subseteq (DOMAIN cache) \cap (DOMAIN cache_timestamps)

\* C8: whenever load_transactions has returned the result of its query, every
\* tagged transaction of the database appears in it, with the names of exactly the
\* tags it is linked to (the tags it was created with or last updated to).
C8_TagsRoundTrip ==
    \A t \in Threads :
        (/\ pc[t] = "idle"
         /\ ret[t].op = "load_transactions"
         /\ ret[t].src = "database") =>
            \A tx \in {x \in transactions : LinksOf(x.id) # {}} :
                \E r \in ret[t].data :
                    /\ r.id = tx.id
                    /\ r.tags = {g.name : g \in {x \in tags : x.id \in LinksOf(tx.id)}}

Reads == Loads \cup {"get_tags", "get_uploaded_files", "get_tag_name_to_id_mapping"}

\* The entry the read found was populated less than CACHE_TTL before the call.
FoundFresh(r) == r.had /\ (r.at - r.stamp) < CACHE_TTL

\* The TTL rule for one finished read r of thread t.
TtlRule(t, r) ==
    /\ r.src = "cache" => FoundFresh(r)
    /\ FoundFresh(r) => r.src = "cache"
    /\ (r.had /\ ~FoundFresh(r)) =>
          /\ r.src = "database"
          /\ StoredKey(r.op, r.key) \in DOMAIN cache_timestamps
          /\ cache_timestamps[StoredKey(r.op, r.key)] >= r.at

\* C15: a read is served from the cache exactly when the entry it found was populated
\* less than 300 seconds before; a read that finds an older entry queries the
\* database and leaves the entry with a timestamp not before the read.
C15_EntriesLiveForTheTtl ==
    \A t \in Threads :
        (pc[t] = "idle" /\ ret[t].op \in Reads /\ ~ret[t].raised) => TtlRule(t, ret[t])

-----------------------------------------------------------------------------
(* Properties of the connections and of the administration (SpecAdmin) *)

\* C16: a thread that is in no operation has no connection stored in thread_local,
\* whatever operation it ran last and however that operation ended.
C16_ConnectionIsReleased ==
    \A t \in Threads : pc[t] = "idle" => connection[t] = "none"

TableIsEmpty(table) ==
    CASE table = "tags"             -> tags = {}
      [] table = "uploaded_files"   -> uploaded_files = <<>>
      [] table = "transactions"     -> transactions = {}
      [] table = "transaction_tags" -> transaction_tags = {}

\* C17: when reset_database(table) has ended, it has not raised, every named table
\* exists, tags (when named) holds exactly the 16 default tags and every other named
\* table is empty.
C17_ResetRecreatesTheTables ==
    \A t \in Threads :
        (pc[t] = "idle" /\ ret[t].op = "reset_database") =>
            /\ ~ret[t].raised
            /\ \A table \in Named(ret[t].table) :
                  /\ table \in schema
                  /\ IF table = "tags"
                     THEN /\ {g.name : g \in tags} = Range(DefaultTagNames)
                          /\ Cardinality(tags) = Len(DefaultTagNames)
                     ELSE TableIsEmpty(table)

-----------------------------------------------------------------------------
(* Properties of the tag callbacks (SpecTags) *)

TagOps == {"add_tag", "update_tag"}

\* The step in which thread t calls add_tag or update_tag: it ends the call at once
\* or leaves it after conn.commit().
TagCallStep(t) ==
    /\ pc[t] = "idle"
    /\ \/ pc'[t] = "tag_inval"
       \/ /\ pc'[t] = "idle"
          /\ ret'[t].op \in TagOps
          /\ <<ret'[t], prevOp'[t]>> # <<ret[t], prevOp[t]>>

TagCallArgs(t) == IF pc'[t] = "tag_inval" THEN loc'[t] ELSE ret'[t]

\* The name of the call is taken: by any tag for add_tag, by a tag other than the
\* renamed one (which exists) for update_tag.
NameTaken(a) ==
    IF a.op = "add_tag"
    THEN \E g \in tags : g.name = a.name
    ELSE /\ \E g \in tags : g.id = a.tag_id
         /\ \E g \in tags : g.id # a.tag_id /\ g.name = a.name

\* C18: a call of add_tag with a name some tag has, or of update_tag renaming a tag
\* to a name another tag has, ends in that step with False and no exception, and
\* leaves the tags table and the cache as they were.
C18_TakenNameIsRefused ==
    [][\A t \in Threads :
          (TagCallStep(t) /\ NameTaken(TagCallArgs(t))) =>
              /\ pc'[t] = "idle"
              /\ ~ret'[t].ok
              /\ ~ret'[t].raised
              /\ UNCHANGED <<tags, cacheVars>>]_vars

\* A refused update_tag, after a tag was added and with the tag list cached and fresh.
C18_Witness ==
    \E t \in Threads :
        /\ pc[t] = "idle"
        /\ ret[t].op = "update_tag"
        /\ ~ret[t].ok
        /\ ~ret[t].raised
        /\ prevOp[t] = "other"
        /\ BaseKey("tags") \in DOMAIN cache
        /\ _is_cache_valid(BaseKey("tags"))
        /\ Cardinality(tags) = Len(DefaultTagNames) + 1

-----------------------------------------------------------------------------
(* Properties of add_tag against a locked database (SpecLock) *)

-----------------------------------------------------------------------------
(* The rows process_uploaded_files returns (SpecImport) *)

DateDescending(rows) == \A i, k \in 1..Len(rows) : i < k => rows[i].Date >= rows[k].Date

\* C20: the rows returned by a call that has saved its frames are all the persisted
\* transactions, those of earlier imports and manual entries included, one row each,
\* latest date first.
C20_ReturnedRowsAreAllPersisted ==
    \A t \in Threads :
        (Finished(t) /\ ~ret[t].raised /\ ret[t].saved # <<>>) =>
            /\ Len(ret[t].data) = Cardinality(transactions)
            /\ \A tx \in transactions :
                  \E i \in 1..Len(ret[t].data) : ret[t].data[i].Amount = tx.amount
            /\ DateDescending(ret[t].data)

-----------------------------------------------------------------------------
(* Properties of the ledger: tags, transactions and their links (SpecLedger) *)

Loaders == {"load_transactions", "load_transactions_with_sort"}

\* C21: the rows a finished load_transactions or load_transactions_with_sort has
\* returned report, for each transaction, the names its tags have in the tags table.
C21_LoadersSeeTheCurrentTagNames ==
    \A t \in Threads :
        (pc[t] = "idle" /\ ret[t].op \in Loaders /\ ~ret[t].raised) =>
            \A row \in ret[t].data : row.tags = TagNamesOf(row.id)

-----------------------------------------------------------------------------
(* The tag mapping (SpecTags) *)

\* C22: the mapping a finished get_tag_name_to_id_mapping has returned is the
\* name-to-id pairs of the tags table: not empty while tags exist, and with every
\* tag a completed add_tag has added.
C22_MappingIsTheTagsTable ==
    \A t \in Threads :
        (pc[t] = "idle" /\ ret[t].op = "get_tag_name_to_id_mapping" /\ ~ret[t].raised) =>
            ret[t].data = TagMappingQuery

-----------------------------------------------------------------------------
(* The file list while files are imported (SpecCount) *)

\* Some call of process_uploaded_files has reported filename as uploaded
\* successfully with n transactions.
ReportedUploaded(filename, n) ==
    \E t \in Threads :
        /\ Importing(t) \/ Finished(t)
        /\ \E k \in 1..Len(StatusList(t)) : StatusList(t)[k] = Uploaded(filename, n)

\* Thread r calls get_uploaded_files in this step.
FileListCall(r) ==
    /\ pc[r] = "idle"
    /\ pc'[r] \in {"rd_get", "rd_query"}
    /\ loc'[r].op = "get_uploaded_files"

\* The rows the call has chosen to return: those of the cache entry it found valid,
\* or those of the table.
FileListSource(r) ==
    IF pc'[r] = "rd_get" THEN _get_cache(BaseKey("uploaded_files")).data
    ELSE UploadedFilesQuery

\* C23: a get_uploaded_files call made once a file is reported uploaded successfully
\* with N transactions gives the file's row with transaction_count = N.
C23_FileListHasTheReportedCount ==
    [][\A r \in Threads :
          FileListCall(r) =>
              \A row \in FileListSource(r) :
                  \A n \in {Len(DropNullAmounts(CSV[d].rows)) : d \in Data} :
                      ReportedUploaded(row.filename, n) => row.transaction_count = n]_vars

-----------------------------------------------------------------------------
(* Rejected files (SpecImport) *)

CallBatch(t) == IF pc[t] = "idle" THEN ret[t].batch ELSE loc[t].batch

\* Every file the call has failed in parse_contents is recorded with
\* transaction_count 0 and has no transaction.
RejectedIsRecordedEmpty ==
    \A t \in Threads :
        (Importing(t) \/ Finished(t)) =>
            \A k \in 1..Len(StatusList(t)) :
                StatusList(t)[k].kind = "error" =>
                    LET h == calculate_file_hash(CallBatch(t)[k].contents)
                    IN  /\ \E r \in 1..Len(uploaded_files) :
                              /\ uploaded_files[r].sha_256 = h
                              /\ uploaded_files[r].transaction_count = 0
                        /\ RowsOf(h) = {}

\* No step removes a record of uploaded_files or changes its fingerprint.
RecordsAreKept ==
    \A r \in 1..Len(uploaded_files) :
        /\ r <= Len(uploaded_files')
        /\ uploaded_files'[r].sha_256 = uploaded_files[r].sha_256

\* C24: a file rejected by parse_contents stays recorded, with transaction_count 0
\* and no transactions; no record is ever removed; and an upload of recorded bytes,
\* whatever the format of the call, is skipped as already uploaded and adds nothing.
C24_RejectedFileStaysRecorded ==
    /\ []RejectedIsRecordedEmpty
    /\ [][RecordsAreKept]_vars
    /\ [][\A t \in Threads :
            (AtGateRecorded(t) /\ Stepped(t)) =>
                /\ StatusList(t)' =
                       Append(loc[t].status_messages, Skipped(CurrentFile(t).filename))
                /\ UNCHANGED <<uploaded_files, transactions>>]_vars

\* jan.csv was rejected under a format that is not its own, and its upload under the
\* standard format is then skipped.
C24_Witness ==
    \E t \in Threads :
        /\ Finished(t)
        /\ ret[t].format_type = "standard"
        /\ ret[t].status_messages = <<Skipped("jan.csv")>>
        /\ Len(uploaded_files) = 1
        /\ uploaded_files[1].transaction_count = 0
        /\ RowsOf(uploaded_files[1].sha_256) = {}

-----------------------------------------------------------------------------
(* A save that fails (SpecImport) *)

\* Thread t's save_transactions raises in this step.
SaveRaises(t) == pc[t] = "st_exec" /\ pc'[t] = "idle"

\* C25: when the save of a file's frame fails, the exception reaches the caller, no
\* transaction and no tag link is persisted for the file (nor any other changed), the
\* cache is not invalidated, and the file's transaction_count stays the number of
\* parsed rows.
C25_FailedSavePersistsNothing ==
    [][\A t \in Threads :
          SaveRaises(t) =>
              LET f == loc[t].dfs[loc[t].j]
              IN  /\ ret'[t].raised
                  /\ ret'[t].op = loc[t].op
                  /\ {tx \in transactions' : tx.file_sha_256 = f.sha_256} = {}
                  /\ UNCHANGED <<transactions, transaction_tags, cacheVars>>
                  /\ loc[t].op = "process_uploaded_files" =>
                        \E r \in 1..Len(uploaded_files') :
                            /\ uploaded_files'[r].sha_256 = f.sha_256
                            /\ uploaded_files'[r].transaction_count = Len(f.df)]_vars

\* The import of jan.csv has failed in its save with the transactions listed in the
\* cache: its two rows are counted and none is persisted.
C25_Witness ==
    \E t \in Threads :
        /\ Finished(t)
        /\ ret[t].raised
        /\ ret[t].failed # <<>>
        /\ Len(ret[t].failed[1].df) = 2
        /\ RowsOf(ret[t].failed[1].sha_256) = {}
        /\ BaseKey("transactions") \in DOMAIN cache
        /\ \E r \in 1..Len(uploaded_files) :
              /\ uploaded_files[r].sha_256 = ret[t].failed[1].sha_256
              /\ uploaded_files[r].transaction_count = 2

-----------------------------------------------------------------------------
(* Replacing the tags of a transaction (SpecLedger) *)

\* C26: update_transaction_tags(id, tag_ids) with tag_ids free of repetition commits
\* exactly tag_ids as the links of the transaction, changes no other link and goes
\* on to return True; with an id twice in tag_ids it returns False at once and every
\* link is as it was before the call.
C26_TagSetIsReplacedOrKept ==
    /\ [][\A t \in Threads, id \in 1..MaxTx, g \in TagLists :
            update_transaction_tags(t, id, g) =>
                IF HasDuplicate(g)
                THEN /\ pc'[t] = "idle"
                     /\ ~ret'[t].ok
                     /\ ~ret'[t].raised
                     /\ UNCHANGED transaction_tags
                ELSE /\ pc'[t] = "wr_inval"
                     /\ {p[2] : p \in {q \in transaction_tags' : q[1] = id}} = Range(g)
                     /\ {q \in transaction_tags' : q[1] # id} =
                            {q \in transaction_tags : q[1] # id}]_vars
    /\ [][\A t \in Threads :
            (pc[t] = "wr_inval" /\ loc[t].op = "update_transaction_tags" /\ pc'[t] = "idle") =>
                /\ ret'[t].ok
                /\ UNCHANGED transaction_tags]_vars

\* A call with an id twice has returned False and transaction 1 has its two tags.
C26_Witness ==
    \E t \in Threads :
        /\ pc[t] = "idle"
        /\ ret[t].op = "update_transaction_tags"
        /\ ~ret[t].ok
        /\ LinksOf(1) = {1, 2}
        /\ \E x \in transactions : x.id = 1

-----------------------------------------------------------------------------
(* References between the tables (SpecLedger) *)

\* C27: every row of transaction_tags names a transaction of the transactions table
\* and a tag of the tags table.
C27_LinksReferenceExistingRows ==
    \A p \in transaction_tags :
        /\ \E x \in transactions : x.id = p[1]
        /\ \E g \in tags : g.id = p[2]

-----------------------------------------------------------------------------
(* Deleting transactions (SpecLedger) *)

TransactionKeys(f) == {k \in DOMAIN f : k.ns \in {"transactions", "transactions_sort_"}}

\* C28: delete_transactions(ids) commits the removal of exactly the transactions
\* with those ids and of exactly their links, with the tags and the uploaded files
\* (their transaction_count too) as they were; it then removes the 'transactions'
\* entry and every 'transactions_sort_' entry from the cache, keeps the other
\* entries, and returns True.
C28_DeleteRemovesExactlyTheIds ==
    /\ [][\A t \in Threads, ids \in {{1}, {1, 2}} :
            delete_transactions(t, ids) =>
                /\ pc'[t] = "wr_inval"
                /\ transactions' = {x \in transactions : x.id \notin ids}
                /\ transaction_tags' = {p \in transaction_tags : p[1] \notin ids}
                /\ UNCHANGED <<tags, uploaded_files>>]_vars
    /\ [][\A t \in Threads :
            (pc[t] = "wr_inval" /\ loc[t].op = "delete_transactions" /\ pc'[t] = "idle") =>
                /\ ret'[t].ok
                /\ TransactionKeys(cache') = {}
                /\ TransactionKeys(cache_timestamps') = {}
                /\ cache' = Drop(cache, TransactionKeys(cache))
                /\ cache_timestamps' = Drop(cache_timestamps, TransactionKeys(cache_timestamps))
                /\ UNCHANGED dbVars]_vars

\* The delete of the only transaction is committed, with the plain and the sorted
\* listing still in the cache and the imported file counted as before.
C28_Witness ==
    \E t \in Threads :
        /\ pc[t] = "wr_inval"
        /\ loc[t].op = "delete_transactions"
        /\ transactions = {}
        /\ transaction_tags = {}
        /\ {BaseKey("transactions"), DefaultSort, BaseKey("uploaded_files")} \subseteq DOMAIN cache
        /\ uploaded_files[1].transaction_count = 2

-----------------------------------------------------------------------------
(* Readers and writers on two threads (SpecRace) *)

FallbackReads == {"load_transactions", "load_transactions_with_sort", "get_tags",
                  "get_uploaded_files"}

\* C29: a read returns the empty fallback (the entry it found valid is not in _cache
\* when it fetches it) only when its query has no row to return.
C29_NoEmptyFallbackWhileDataExists ==
    [][\A t \in Threads :
          (/\ pc[t] = "rd_get"
           /\ loc[t].op \in FallbackReads
           /\ pc'[t] = "idle"
           /\ ret'[t].src = "fallback") => Query(loc[t].op, loc[t].key) = {}]_vars

\* C30: _cache and _cache_timestamps have the same keys.
C30_CacheDictionariesShareKeys == DOMAIN cache = DOMAIN cache_timestamps

\* One thread is about to invalidate 'transactions' while the other is about to
\* store a listing, with a sorted listing in both dictionaries.
C30_Witness ==
    /\ \E t \in Threads : pc[t] = "wr_inval"
    /\ \E t \in Threads : pc[t] = "rd_update"
    /\ DefaultSort \in DOMAIN cache
    /\ DefaultSort \in DOMAIN cache_timestamps

====
